---- MODULE Spec2Model ----
(***************************************************************************)
(* Legal Document Assistant (backend/): the placeholder extractor          *)
(* (document_handler.py), the chat turn that fills placeholders            *)
(* (llm_handler.py, main.py), the render gate and the status endpoint      *)
(* (main.py), as a state machine over the in-memory session dictionary.    *)
(*                                                                         *)
(* Python strings that the code inspects character by character (document  *)
(* text, placeholder names, contexts, values) are sequences of one-        *)
(* character strings.  Python None is the value None below.                *)
(***************************************************************************)
EXTENDS Integers, Sequences, FiniteSets, TLC

(***************************************************************************)
(* Python str helpers                                                      *)
(***************************************************************************)

\* Python None.  No str equals it: every element of a str is one character.
None == <<"<None>">>

UpperChars ==
  <<"A", "B", "C", "D", "E", "F", "G", "H", "I", "J", "K", "L", "M",
    "N", "O", "P", "Q", "R", "S", "T", "U", "V", "W", "X", "Y", "Z">>

LowerChars ==
  <<"a", "b", "c", "d", "e", "f", "g", "h", "i", "j", "k", "l", "m",
    "n", "o", "p", "q", "r", "s", "t", "u", "v", "w", "x", "y", "z">>

\* str.lower() on one (ASCII) character
LowerChar(c) ==
  IF \E i \in 1..26 : UpperChars[i] = c
    THEN LowerChars[CHOOSE i \in 1..26 : UpperChars[i] = c]
    ELSE c

\* str.lower() (written as a concatenation so that the result is a tuple)
Lower(s) == <<>> \o [i \in 1..Len(s) |-> LowerChar(s[i])]

\* the characters str.strip() removes
Whitespace == {" ", "\t", "\n", "\r"}

SetMin(S) == CHOOSE x \in S : \A y \in S : x <= y

SetMax(S) == CHOOSE x \in S : \A y \in S : x >= y

\* str.strip()
Strip(s) ==
  LET keep == {i \in 1..Len(s) : s[i] \notin Whitespace}
  IN  IF keep = {} THEN <<>> ELSE SubSeq(s, SetMin(keep), SetMax(keep))

\* s[i:j] with 0 <= i, j <= len(s) (Python slice, 0-based, j exclusive)
Slice(s, i, j) == SubSeq(s, i + 1, j)

\* needle occurs in hay at 1-based position i
OccursAt(needle, hay, i) ==
  /\ i + Len(needle) - 1 <= Len(hay)
  /\ \A k \in 1..Len(needle) : hay[i + k - 1] = needle[k]

\* Python `needle in hay` on str
Contains(needle, hay) ==
  \E i \in 1..(Len(hay) - Len(needle) + 1) : OccursAt(needle, hay, i)

(***************************************************************************)
(* document_handler.py                                                     *)
(***************************************************************************)

\* type_patterns of infer_placeholder_type, in dict (insertion) order
type_patterns ==
  <<
    [type |-> "currency", keywords |-> <<
         <<"a", "m", "o", "u", "n", "t">>,
         <<"p", "r", "i", "c", "e">>,
         <<"c", "o", "s", "t">>,
         <<"f", "e", "e">>,
         <<"p", "a", "y", "m", "e", "n", "t">>,
         <<"p", "a", "i", "d">>,
         <<"i", "n", "v", "e", "s", "t">>,
         <<"p", "u", "r", "c", "h", "a", "s", "e">>,
         <<"d", "o", "l", "l", "a", "r">>,
         <<"s", "a", "l", "a", "r", "y">>,
         <<"s", "u", "m">>,
         <<"t", "o", "t", "a", "l">>,
         <<"v", "a", "l", "u", "e">>,
         <<"r", "a", "t", "e">>,
         <<"$">>,
         <<"t", "h", "o", "u", "s", "a", "n", "d">> >>],
    [type |-> "date", keywords |-> <<
         <<"d", "a", "t", "e">>,
         <<"w", "h", "e", "n">>,
         <<"d", "a", "y">>,
         <<"m", "o", "n", "t", "h">>,
         <<"y", "e", "a", "r">>,
         <<"t", "i", "m", "e">>,
         <<"p", "e", "r", "i", "o", "d">>,
         <<"u", "n", "t", "i", "l">>,
         <<"f", "r", "o", "m">>,
         <<"j", "a", "n", "u", "a", "r", "y">>,
         <<"f", "e", "b", "r", "u", "a", "r", "y">>,
         <<"m", "a", "r", "c", "h">>,
         <<"a", "p", "r", "i", "l">>,
         <<"m", "a", "y">>,
         <<"j", "u", "n", "e">>,
         <<"j", "u", "l", "y">>,
         <<"a", "u", "g", "u", "s", "t">>,
         <<"s", "e", "p", "t", "e", "m", "b", "e", "r">>,
         <<"o", "c", "t", "o", "b", "e", "r">>,
         <<"n", "o", "v", "e", "m", "b", "e", "r">>,
         <<"d", "e", "c", "e", "m", "b", "e", "r">>,
         <<"2", "0">>,
         <<"2", "0", "2", "4">>,
         <<"2", "0", "2", "5">> >>],
    [type |-> "person_name", keywords |-> <<
         <<"i", "n", "v", "e", "s", "t", "o", "r">>,
         <<"f", "o", "u", "n", "d", "e", "r">>,
         <<"d", "i", "r", "e", "c", "t", "o", "r">>,
         <<"o", "f", "f", "i", "c", "e", "r">>,
         <<"p", "a", "r", "t", "n", "e", "r">>,
         <<"r", "e", "p", "r", "e", "s", "e", "n", "t", "a", "t", "i", "v", "e">>,
         <<"m", "r">>,
         <<"m", "s">>,
         <<"d", "r">>,
         <<"a", "t", "t", "o", "r", "n", "e", "y">>,
         <<"s", "i", "g", "n", "a", "t", "o", "r", "y">>,
         <<"m", "e", "m", "b", "e", "r">>,
         <<"p", "e", "r", "s", "o", "n">>,
         <<"p", "e", "r", "s", "o", "n", "'", "s">> >>],
    [type |-> "company_name", keywords |-> <<
         <<"c", "o", "m", "p", "a", "n", "y">>,
         <<"c", "o", "r", "p", "o", "r", "a", "t", "i", "o", "n">>,
         <<"c", "o", "r", "p">>,
         <<"i", "n", "c">>,
         <<"l", "l", "c">>,
         <<"l", "t", "d">>,
         <<"l", "p">>,
         <<"e", "n", "t", "i", "t", "y">>,
         <<"o", "r", "g", "a", "n", "i", "z", "a", "t", "i", "o", "n">>,
         <<"b", "u", "s", "i", "n", "e", "s", "s">>,
         <<"f", "i", "r", "m">>,
         <<"g", "r", "o", "u", "p">>,
         <<"e", "n", "t", "e", "r", "p", "r", "i", "s", "e">>,
         <<"v", "e", "n", "t", "u", "r", "e">> >>],
    [type |-> "address", keywords |-> <<
         <<"a", "d", "d", "r", "e", "s", "s">>,
         <<"s", "t", "r", "e", "e", "t">>,
         <<"c", "i", "t", "y">>,
         <<"s", "t", "a", "t", "e">>,
         <<"z", "i", "p">>,
         <<"z", "i", "p", "c", "o", "d", "e">>,
         <<"r", "o", "a", "d">>,
         <<"a", "v", "e", "n", "u", "e">>,
         <<"b", "o", "u", "l", "e", "v", "a", "r", "d">>,
         <<"d", "r", "i", "v", "e">>,
         <<"l", "a", "n", "e">>,
         <<"l", "o", "c", "a", "t", "i", "o", "n">>,
         <<"p", "l", "a", "c", "e">>,
         <<"b", "u", "i", "l", "d", "i", "n", "g">> >>],
    [type |-> "email", keywords |-> <<
         <<"e", "m", "a", "i", "l">>,
         <<"m", "a", "i", "l">>,
         <<"c", "o", "n", "t", "a", "c", "t">>,
         <<"@">>,
         <<".", "c", "o", "m">>,
         <<".", "o", "r", "g">>,
         <<".", "n", "e", "t">>,
         <<".", "e", "d", "u">> >>],
    [type |-> "phone", keywords |-> <<
         <<"p", "h", "o", "n", "e">>,
         <<"n", "u", "m", "b", "e", "r">>,
         <<"t", "e", "l", "e", "p", "h", "o", "n", "e">>,
         <<"m", "o", "b", "i", "l", "e">>,
         <<"c", "e", "l", "l">>,
         <<"c", "o", "n", "t", "a", "c", "t">>,
         <<"(">>,
         <<")">> >>]
  >>

\* type_scores[type_name]: how many keywords of the type occur in the text
KeywordHits(keywords, combined_text) ==
  Cardinality({k \in 1..Len(keywords) : Contains(keywords[k], combined_text)})

\* infer_placeholder_type with the bug of returning the first type, in dict
\* order, that has a keyword in the text
infer_placeholder_type_first_hit(placeholder_name, context) ==
  LET combined_text == Lower(placeholder_name \o <<" ">> \o context)
      hit == {t \in 1..Len(type_patterns) :
                KeywordHits(type_patterns[t].keywords, combined_text) > 0}
  IN  IF hit # {} THEN type_patterns[SetMin(hit)].type ELSE "text"

\* infer_placeholder_type: the first type, in dict order, with the highest
\* keyword count; 'text' when no keyword occurs
infer_placeholder_type(placeholder_name, context) ==
  LET combined_text == Lower(placeholder_name \o <<" ">> \o context)
      type_scores == [t \in 1..Len(type_patterns) |->
                        KeywordHits(type_patterns[t].keywords, combined_text)]
      best == SetMax({type_scores[t] : t \in 1..Len(type_patterns)})
  IN  IF best > 0
        THEN type_patterns[SetMin({t \in 1..Len(type_patterns) :
                                      type_scores[t] = best})].type
        ELSE "text"

\* type_descriptions of find_placeholders
type_descriptions(t) ==
  CASE t = "currency" ->
       <<"A", "m", "o", "u", "n", "t", " ", "i", "n", " ", "d", "o", "l", "l", "a", "r", "s", "/", "c", "u", "r", "r", "e", "n", "c", "y">>
    [] t = "date" ->
       <<"D", "a", "t", "e", " ", "(", "e", ".", "g", ".", ",", " ", "M", "M", "/", "D", "D", "/", "Y", "Y", "Y", "Y", " ", "o", "r", " ", "t", "e", "x", "t", " ", "f", "o", "r", "m", "a", "t", ")">>
    [] t = "person_name" ->
       <<"P", "e", "r", "s", "o", "n", "'", "s", " ", "f", "u", "l", "l", " ", "n", "a", "m", "e">>
    [] t = "company_name" ->
       <<"C", "o", "m", "p", "a", "n", "y", " ", "o", "r", " ", "o", "r", "g", "a", "n", "i", "z", "a", "t", "i", "o", "n", " ", "n", "a", "m", "e">>
    [] t = "address" ->
       <<"F", "u", "l", "l", " ", "a", "d", "d", "r", "e", "s", "s">>
    [] t = "email" ->
       <<"E", "m", "a", "i", "l", " ", "a", "d", "d", "r", "e", "s", "s">>
    [] t = "phone" ->
       <<"P", "h", "o", "n", "e", " ", "n", "u", "m", "b", "e", "r">>
    [] t = "text" ->
       <<"T", "e", "x", "t", " ", "v", "a", "l", "u", "e">>

\* characters of context kept on each side of a placeholder
ContextWidth == 150

\* 1-based positions p..Len(text) holding character c
PositionsOf(text, c, p) == {i \in p..Len(text) : text[i] = c}

\* re.finditer(r'\[([^\]]+)\]', text) from 1-based position pos on: the
\* spans (start, end) of the leftmost non-overlapping matches, 0-based with
\* end exclusive as match.span() gives them.  A match starts at a '[' whose
\* next character is not ']' and ends at the first ']' after it.
RECURSIVE finditer(_, _)
finditer(text, pos) ==
  LET opens == PositionsOf(text, "[", pos)
  IN  IF opens = {} THEN <<>>
      ELSE LET o == SetMin(opens)
               closes == PositionsOf(text, "]", o + 1)
           IN  IF closes = {} THEN <<>>
               ELSE IF SetMin(closes) = o + 1 THEN finditer(text, o + 1)
               ELSE <<[start |-> o - 1, end |-> SetMin(closes)]>>
                      \o finditer(text, SetMin(closes) + 1)

\* match.group(1)
Group1(text, m) == Slice(text, m.start + 1, m.end - 1)

\* text[context_start:context_end].strip()
ContextOf(text, m) ==
  LET context_start == IF m.start - ContextWidth > 0
                         THEN m.start - ContextWidth ELSE 0
      context_end == IF m.end + ContextWidth < Len(text)
                       THEN m.end + ContextWidth ELSE Len(text)
  IN  Strip(Slice(text, context_start, context_end))

\* placeholder_dict
PlaceholderDict(placeholder_name, context) ==
  LET inferred_type == infer_placeholder_type(placeholder_name, context)
  IN  [name |-> placeholder_name,
       context |-> context,
       filled |-> FALSE,
       value |-> None,
       type |-> inferred_type,
       description |-> type_descriptions(inferred_type)]

\* SkipMatch with the bug of looking the name up in seen as written, not
\* lowercased
SkipMatchCaseSensitive(placeholder_name, seen) ==
  \/ placeholder_name = <<>>
  \/ placeholder_name \in seen

\* whether the loop of find_placeholders skips a match: its stripped name is
\* empty, or its lowercased name is in seen
SkipMatch(placeholder_name, seen) ==
  \/ placeholder_name = <<>>
  \/ Lower(placeholder_name) \in seen

RECURSIVE FindLoop(_, _, _, _, _)

\* FindLoop with the bug of putting a new placeholder in front of the list
FindLoopPrepend(text, matches, k, placeholders, seen) ==
  IF k > Len(matches) THEN placeholders
  ELSE LET placeholder_name == Strip(Group1(text, matches[k]))
       IN  IF SkipMatch(placeholder_name, seen)
             THEN FindLoop(text, matches, k + 1, placeholders, seen)
             ELSE FindLoop(text, matches, k + 1,
                    <<PlaceholderDict(placeholder_name,
                                      ContextOf(text, matches[k]))>>
                      \o placeholders,
                    seen \cup {Lower(placeholder_name)})

\* the loop of find_placeholders over matches[k..]
FindLoop(text, matches, k, placeholders, seen) ==
  IF k > Len(matches) THEN placeholders
  ELSE LET placeholder_name == Strip(Group1(text, matches[k]))
       IN  IF SkipMatch(placeholder_name, seen)
             THEN FindLoop(text, matches, k + 1, placeholders, seen)
             ELSE FindLoop(text, matches, k + 1,
                    Append(placeholders,
                           PlaceholderDict(placeholder_name,
                                           ContextOf(text, matches[k]))),
                    seen \cup {Lower(placeholder_name)})

find_placeholders(text) == FindLoop(text, finditer(text, 1), 1, <<>>, {})

(***************************************************************************)
(* A .docx document is the sequence of the texts of its body paragraphs    *)
(* (python-docx paragraph.text, the joined text of the paragraph's runs).  *)
(***************************************************************************)

RECURSIVE JoinLines(_)
\* "\n".join(text_parts)
JoinLines(text_parts) ==
  IF text_parts = <<>> THEN <<>>
  ELSE IF Len(text_parts) = 1 THEN text_parts[1]
  ELSE text_parts[1] \o <<"\n">> \o JoinLines(Tail(text_parts))

\* extract_document_text: the paragraphs whose stripped text is not empty,
\* joined by newlines
extract_document_text(document) ==
  JoinLines(SelectSeq(document, LAMBDA paragraph : Strip(paragraph) # <<>>))

\* f"[{name}]"
Bracketed(name) == <<"[">> \o name \o <<"]">>

RECURSIVE StrReplace(_, _, _)
\* s.replace(old, new) for a non-empty old: every non-overlapping
\* occurrence, left to right
StrReplace(s, old, new) ==
  LET at == {i \in 1..(Len(s) - Len(old) + 1) : OccursAt(old, s, i)}
  IN  IF at = {} THEN s
      ELSE LET i == SetMin(at)
           IN  SubSeq(s, 1, i - 1) \o new
                 \o StrReplace(SubSeq(s, i + Len(old), Len(s)), old, new)

\* replacement_value or ""
OrEmpty(replacement_value) ==
  IF replacement_value = None THEN <<>> ELSE replacement_value

RECURSIVE ReplaceEach(_, _, _)
\* the replacement loop of replace_in_paragraph over placeholders_here[k..]
ReplaceEach(combined_text, placeholders_here, k) ==
  IF k > Len(placeholders_here) THEN combined_text
  ELSE LET placeholder_str == Bracketed(placeholders_here[k].key)
       IN  ReplaceEach(
             IF Contains(placeholder_str, combined_text)
               THEN StrReplace(combined_text, placeholder_str,
                               OrEmpty(placeholders_here[k].value))
               ELSE combined_text,
             placeholders_here, k + 1)

\* replace_in_paragraph: the paragraph's text afterwards.  values_dict is a
\* dict in insertion order: a sequence of [key, value] with distinct keys.
replace_in_paragraph(paragraph, values_dict) ==
  ReplaceEach(paragraph,
              SelectSeq(values_dict,
                        LAMBDA kv : Contains(Bracketed(kv.key), paragraph)),
              1)

\* fill_placeholders: the document saved to output_path
fill_placeholders(document, values) ==
  [i \in 1..Len(document) |->
     IF \E k \in 1..Len(values) :
          Contains(Bracketed(values[k].key), document[i])
       THEN replace_in_paragraph(document[i], values)
       ELSE document[i]]

(***************************************************************************)
(* Python dict in insertion order: a sequence of [key, value] records      *)
(* with distinct keys.                                                     *)
(***************************************************************************)

DictKeys(d) == {d[i].key : i \in 1..Len(d)}

\* d[key] = value: an existing key keeps its position, a new key is appended
DictSet(d, key, value) ==
  IF key \in DictKeys(d)
    THEN [i \in 1..Len(d) |->
            IF d[i].key = key THEN [key |-> key, value |-> value] ELSE d[i]]
    ELSE Append(d, [key |-> key, value |-> value])

(***************************************************************************)
(* llm_handler.py                                                          *)
(***************************************************************************)

\* str.split(): the maximal runs of characters that are not whitespace
RECURSIVE Split(_)
Split(s) ==
  LET keep == {i \in 1..Len(s) : s[i] \notin Whitespace}
  IN  IF keep = {} THEN <<>>
      ELSE LET b == SetMin(keep)
               stops == {i \in b..Len(s) : s[i] \in Whitespace}
               e == IF stops = {} THEN Len(s) ELSE SetMin(stops) - 1
           IN  <<SubSeq(s, b, e)>> \o Split(SubSeq(s, e + 1, Len(s)))

\* type_keywords of calculate_match_score: the keyword lists as written
\* (a keyword written twice is counted twice), in dict order
type_keywords ==
  <<
    [type |-> "currency", keywords |-> <<
         <<"d", "o", "l", "l", "a", "r">>,
         <<"a", "m", "o", "u", "n", "t">>,
         <<"$">>,
         <<"c", "o", "s", "t">>,
         <<"p", "r", "i", "c", "e">>,
         <<"f", "e", "e">>,
         <<"p", "a", "y", "m", "e", "n", "t">>,
         <<"p", "a", "i", "d">>,
         <<"i", "n", "v", "e", "s", "t">> >>],
    [type |-> "date", keywords |-> <<
         <<"d", "a", "t", "e">>,
         <<"w", "h", "e", "n">>,
         <<"d", "a", "y">>,
         <<"m", "o", "n", "t", "h">>,
         <<"y", "e", "a", "r">>,
         <<"/">>,
         <<"-">>,
         <<"j", "a", "n", "u", "a", "r", "y">>,
         <<"f", "e", "b", "r", "u", "a", "r", "y">>,
         <<"m", "a", "r", "c", "h">>,
         <<"2", "0", "2", "4">>,
         <<"2", "0", "2", "5">>,
         <<"2", "0", "2", "3">>,
         <<"j", "a", "n", "u", "a", "r", "y">>,
         <<"f", "e", "b", "r", "u", "a", "r", "y">>,
         <<"j", "a", "n", "u", "a", "r", "y", " ", "1">>,
         <<"d", "e", "c">>,
         <<"n", "o", "v">> >>],
    [type |-> "person_name", keywords |-> <<
         <<"n", "a", "m", "e">>,
         <<"p", "e", "r", "s", "o", "n">>,
         <<"m", "r">>,
         <<"m", "s">>,
         <<"j", "o", "h", "n">>,
         <<"j", "a", "n", "e">>,
         <<"s", "m", "i", "t", "h">>,
         <<"f", "o", "u", "n", "d", "e", "r">>,
         <<"i", "n", "v", "e", "s", "t", "o", "r">> >>],
    [type |-> "company_name", keywords |-> <<
         <<"c", "o", "m", "p", "a", "n", "y">>,
         <<"c", "o", "r", "p">>,
         <<"i", "n", "c">>,
         <<"l", "t", "d">>,
         <<"l", "l", "c">>,
         <<"o", "r", "g", "a", "n", "i", "z", "a", "t", "i", "o", "n">>,
         <<"b", "u", "s", "i", "n", "e", "s", "s">>,
         <<"g", "r", "o", "u", "p">>,
         <<"c", "o">> >>],
    [type |-> "address", keywords |-> <<
         <<"a", "d", "d", "r", "e", "s", "s">>,
         <<"s", "t", "r", "e", "e", "t">>,
         <<"c", "i", "t", "y">>,
         <<"s", "t", "a", "t", "e">>,
         <<"z", "i", "p">>,
         <<"r", "o", "a", "d">>,
         <<"a", "v", "e">>,
         <<"b", "l", "v", "d">>,
         <<"1", "2", "3">>,
         <<"n", "y">>,
         <<"c", "a">> >>],
    [type |-> "email", keywords |-> <<
         <<"e", "m", "a", "i", "l">>,
         <<"c", "o", "n", "t", "a", "c", "t">>,
         <<"@">>,
         <<".", "c", "o", "m">>,
         <<".", "o", "r", "g">>,
         <<".", "n", "e", "t">> >>],
    [type |-> "phone", keywords |-> <<
         <<"p", "h", "o", "n", "e">>,
         <<"n", "u", "m", "b", "e", "r">>,
         <<"c", "a", "l", "l">>,
         <<"c", "o", "n", "t", "a", "c", "t">>,
         <<"(">>,
         <<")">>,
         <<"c", "e", "l", "l">>,
         <<"m", "o", "b", "i", "l", "e">> >>]
  >>

\* type_keywords[placeholder_type]; no keyword for a type that is no key
TypeKeywords(placeholder_type) ==
  LET hits == {k \in 1..Len(type_keywords) :
                 type_keywords[k].type = placeholder_type}
  IN  IF hits = {} THEN <<>> ELSE type_keywords[SetMin(hits)].keywords

\* how many items of the list words satisfy Len > min_len and occur in
\* user_text_lower
CountIn(words, min_len, user_text_lower) ==
  Cardinality({k \in 1..Len(words) :
                 /\ Len(words[k]) > min_len
                 /\ Contains(words[k], user_text_lower)})

\* calculate_match_score with the bug of giving the 100 of the whole name
\* as soon as one part of the name occurs in the user text
calculate_match_score_any_part(user_text, placeholder) ==
  LET user_text_lower == Lower(user_text)
      placeholder_name == Lower(placeholder.name)
      placeholder_desc == Lower(placeholder.description)
  IN  (IF CountIn(Split(placeholder_name), 0, user_text_lower) > 0
         THEN 100 ELSE 0)
      + 25 * CountIn(Split(placeholder_name), 2, user_text_lower)
      + 15 * CountIn(TypeKeywords(placeholder.type), 0, user_text_lower)
      + 5 * CountIn(Split(placeholder_desc), 3, user_text_lower)

\* calculate_match_score: 100 for the whole name, 25 for each part of the
\* name longer than 2, 15 for each keyword of the type, 5 for each word of
\* the description longer than 3, that occurs in the lowercased user text
calculate_match_score(user_text, placeholder) ==
  LET user_text_lower == Lower(user_text)
      placeholder_name == Lower(placeholder.name)
      placeholder_desc == Lower(placeholder.description)
  IN  (IF Contains(placeholder_name, user_text_lower) THEN 100 ELSE 0)
      + 25 * CountIn(Split(placeholder_name), 2, user_text_lower)
      + 15 * CountIn(TypeKeywords(placeholder.type), 0, user_text_lower)
      + 5 * CountIn(Split(placeholder_desc), 3, user_text_lower)

RECURSIVE ScoresFrom(_, _, _, _)
\* the loop of find_best_placeholder_match that fills the dict scores,
\* keyed by placeholder name, from candidate k on
ScoresFrom(user_input, unfilled_placeholders, k, scores) ==
  IF k > Len(unfilled_placeholders) THEN scores
  ELSE ScoresFrom(user_input, unfilled_placeholders, k + 1,
         DictSet(scores, unfilled_placeholders[k].name,
                 [placeholder |-> unfilled_placeholders[k],
                  score |-> calculate_match_score(user_input,
                                                  unfilled_placeholders[k])]))

\* BestMatch with the bug of taking the last of the values with the
\* highest score
BestMatchLast(scores) ==
  LET best == SetMax({i \in 1..Len(scores) :
                        \A j \in 1..Len(scores) :
                          scores[j].value.score <= scores[i].value.score})
  IN  scores[best].value

\* max(scores.values(), key=lambda x: x[1]): the first value, in dict
\* order, whose score no other value exceeds
BestMatch(scores) ==
  LET best == SetMin({i \in 1..Len(scores) :
                        \A j \in 1..Len(scores) :
                          scores[j].value.score <= scores[i].value.score})
  IN  scores[best].value

\* confidences are kept in hundredths: 100 is 1.0
FullConfidence == 100

\* the placeholders find_best_placeholder_match calls calculate_match_score
\* on
ScoredCandidates(unfilled_placeholders) ==
  IF Len(unfilled_placeholders) < 2 THEN <<>> ELSE unfilled_placeholders

\* find_best_placeholder_match with the bug of scoring a single candidate
\* like any other
find_best_placeholder_match_no_shortcut(user_input, unfilled_placeholders) ==
  IF unfilled_placeholders = <<>> THEN None
  ELSE LET best_match ==
             BestMatch(ScoresFrom(user_input, unfilled_placeholders, 1, <<>>))
           score == best_match.score
       IN  <<best_match.placeholder,
             IF score < FullConfidence THEN score ELSE FullConfidence>>

\* find_best_placeholder_match: None, or (placeholder, confidence)
find_best_placeholder_match(user_input, unfilled_placeholders) ==
  IF unfilled_placeholders = <<>> THEN None
  ELSE IF Len(unfilled_placeholders) = 1
    THEN <<unfilled_placeholders[1], FullConfidence>>
  ELSE LET best_match ==
             BestMatch(ScoresFrom(user_input, unfilled_placeholders, 1, <<>>))
           score == best_match.score
       IN  <<best_match.placeholder,
             IF score < FullConfidence THEN score ELSE FullConfidence>>

\* "All fields are now filled! Ready to download your document."
MsgAllFilled ==
  <<"A", "l", "l", " ", "f", "i", "e", "l", "d", "s", " ", "a", "r",
    "e", " ", "n", "o", "w", " ", "f", "i", "l", "l", "e", "d", "!",
    " ", "R", "e", "a", "d", "y", " ", "t", "o", " ", "d", "o", "w",
    "n", "l", "o", "a", "d", " ", "y", "o", "u", "r", " ", "d", "o",
    "c", "u", "m", "e", "n", "t", ".">>

\* "Got it"
MsgGotIt ==
  <<"G", "o", "t", " ", "i", "t">>

\* "Error processing response"
MsgParseError ==
  <<"E", "r", "r", "o", "r", " ", "p", "r", "o", "c", "e", "s", "s",
    "i", "n", "g", " ", "r", "e", "s", "p", "o", "n", "s", "e">>

\* "Error"
MsgError ==
  <<"E", "r", "r", "o", "r">>

\* "Session expired"
DetailSessionExpired ==
  <<"S", "e", "s", "s", "i", "o", "n", " ", "e", "x", "p", "i", "r",
    "e", "d">>

\* "Session expired or invalid"
DetailSessionInvalid ==
  <<"S", "e", "s", "s", "i", "o", "n", " ", "e", "x", "p", "i", "r",
    "e", "d", " ", "o", "r", " ", "i", "n", "v", "a", "l", "i", "d">>

\* "Session not found"
DetailSessionNotFound ==
  <<"S", "e", "s", "s", "i", "o", "n", " ", "n", "o", "t", " ", "f",
    "o", "u", "n", "d">>

\* "Only .docx files supported"
DetailNotDocx ==
  <<"O", "n", "l", "y", " ", ".", "d", "o", "c", "x", " ", "f", "i",
    "l", "e", "s", " ", "s", "u", "p", "p", "o", "r", "t", "e", "d">>

\* "Please fill remaining fields: "
DetailPleaseFill ==
  <<"P", "l", "e", "a", "s", "e", " ", "f", "i", "l", "l", " ", "r",
    "e", "m", "a", "i", "n", "i", "n", "g", " ", "f", "i", "e", "l",
    "d", "s", ":", " ">>

\* "Chat error: " (the exception text that follows is not modelled)
DetailChatError ==
  <<"C", "h", "a", "t", " ", "e", "r", "r", "o", "r", ":", " ">>

\* "Error: " (the exception text that follows is not modelled)
DetailUploadError ==
  <<"E", "r", "r", "o", "r", ":", " ">>

\* a key that a parsed JSON object does not have
Absent == <<"<absent>">>

\* response_text[:200]
MessageCut == 200

\* response_text.find('{') != -1 and response_text.rfind('}') + 1 > find
HasJsonSpan(response_text) ==
  LET opens == PositionsOf(response_text, "{", 1)
      closes == PositionsOf(response_text, "}", 1)
      json_start == IF opens = {} THEN -1 ELSE SetMin(opens) - 1
      json_end == IF closes = {} THEN 0 ELSE SetMax(closes)
  IN  json_start # -1 /\ json_end > json_start

\* the dict the error branches of chat_for_placeholders return
FailureResult(assistant_message) ==
  [assistant_message |-> assistant_message,
   filled_values |-> <<>>,
   next_placeholder |-> None]

(***************************************************************************)
(* What the language model does in one call is an input of the turn:       *)
(*   raises   llm.invoke raises                                            *)
(*   content  response.content                                             *)
(*   loads    what json.loads makes of the text between the first '{' and  *)
(*            the last '}' (the characters of the JSON text itself are     *)
(*            not modelled): ok = FALSE for a JSONDecodeError, else the    *)
(*            parsed object, whose filled_values is absent, a dict         *)
(*            (items) or another JSON value (null, list, string, number).  *)
(***************************************************************************)

\* the try block of chat_for_placeholders: the result dict
LLMResult(reply) ==
  IF reply.raises THEN FailureResult(MsgError)
  ELSE IF ~HasJsonSpan(reply.content)
    THEN FailureResult(
           Slice(reply.content, 0,
                 IF Len(reply.content) < MessageCut
                   THEN Len(reply.content) ELSE MessageCut))
  ELSE IF ~reply.loads.ok THEN FailureResult(MsgParseError)
  \* filled_values.items() of a value that is no dict raises AttributeError
  ELSE IF reply.loads.filled_values.tag = "other" THEN FailureResult(MsgError)
  ELSE [assistant_message |->
          IF reply.loads.assistant_message = Absent
            THEN MsgGotIt ELSE reply.loads.assistant_message,
        filled_values |->
          IF reply.loads.filled_values.tag = "absent"
            THEN <<>> ELSE reply.loads.filled_values.items,
        next_placeholder |->
          IF reply.loads.next_placeholder = Absent
            THEN None ELSE reply.loads.next_placeholder]

\* unfilled = [p for p in placeholders if not p.get("filled")]
Unfilled(placeholders) == SelectSeq(placeholders, LAMBDA p : ~p.filled)

\* chat_for_placeholders: the result dict and the conversation history it
\* leaves.  With no unfilled placeholder it returns before the history is
\* touched and before the model is called; otherwise the user message and
\* then (finally:) the result's assistant message are appended.
chat_for_placeholders(message, placeholders, conversation_history, reply) ==
  IF Unfilled(placeholders) = <<>>
    THEN [result |-> [assistant_message |-> MsgAllFilled,
                      filled_values |-> <<>>,
                      next_placeholder |-> None],
          conversation_history |-> conversation_history,
          llm_called |-> FALSE]
    ELSE LET result == LLMResult(reply)
         IN  [result |-> result,
              conversation_history |->
                conversation_history
                  \o <<[role |-> "user", content |-> message],
                       [role |-> "assistant",
                        content |-> result.assistant_message]>>,
              llm_called |-> TRUE]

(***************************************************************************)
(* main.py                                                                 *)
(***************************************************************************)

\* settings.max_file_size_mb (config.py)
max_file_size_mb == 50

\* index of the first placeholder whose lowercased name is that of
\* field_name, 0 if there is none (the inner for ... else of chat)
MatchIndex(placeholders, field_name) ==
  LET hits == {i \in 1..Len(placeholders) :
                 Lower(placeholders[i].name) = Lower(field_name)}
  IN  IF hits = {} THEN 0 ELSE SetMin(hits)

\* ApplyPair with the bug p["filled"] = bool(value): a null or empty value
\* marks the placeholder unfilled
ApplyPairTruthy(st, field_name, value) ==
  LET hits == {i \in 1..Len(st.placeholders) :
                 Lower(st.placeholders[i].name) = Lower(field_name)}
  IN  IF hits # {}
        THEN [placeholders |->
                [st.placeholders EXCEPT
                   ![SetMin(hits)].filled = (value # None /\ value # <<>>),
                   ![SetMin(hits)].value = value],
              filled_values |->
                DictSet(st.filled_values,
                        st.placeholders[SetMin(hits)].name, value)]
        ELSE [placeholders |-> st.placeholders,
              filled_values |-> DictSet(st.filled_values, field_name, value)]

\* ApplyPair with the bug of storing the value under the reported name
\* instead of the placeholder's own name
ApplyPairReportedKey(st, field_name, value) ==
  LET hits == {i \in 1..Len(st.placeholders) :
                 Lower(st.placeholders[i].name) = Lower(field_name)}
  IN  IF hits # {}
        THEN [placeholders |->
                [st.placeholders EXCEPT ![SetMin(hits)].filled = TRUE,
                                        ![SetMin(hits)].value = value],
              filled_values |-> DictSet(st.filled_values, field_name, value)]
        ELSE [placeholders |-> st.placeholders,
              filled_values |-> DictSet(st.filled_values, field_name, value)]

\* one iteration of the update loop of chat on [placeholders, filled_values]
ApplyPair(st, field_name, value) ==
  LET i == MatchIndex(st.placeholders, field_name)
  IN  IF i # 0
        THEN [placeholders |->
                [st.placeholders EXCEPT ![i].filled = TRUE, ![i].value = value],
              filled_values |->
                DictSet(st.filled_values, st.placeholders[i].name, value)]
        ELSE [placeholders |-> st.placeholders,
              filled_values |-> DictSet(st.filled_values, field_name, value)]

RECURSIVE ApplyPairs(_, _, _)

\* ApplyPairs with the bug of applying the first reported pair only
ApplyPairsFirstOnly(st, filled_values, k) ==
  IF k > Len(filled_values) THEN st
  ELSE ApplyPair(st, filled_values[k].key, filled_values[k].value)

\* for field_name, value in filled_values.items(): from item k on
ApplyPairs(st, filled_values, k) ==
  IF k > Len(filled_values) THEN st
  ELSE ApplyPairs(ApplyPair(st, filled_values[k].key, filled_values[k].value),
                  filled_values, k + 1)

\* pydantic accepts ChatResponse(filled_values: Dict[str, str], ...) only
\* if every value of the dict is a str
ChatResponseValid(filled_values) ==
  \A i \in 1..Len(filled_values) : filled_values[i].value # None

\* f"File too large (max {settings.max_file_size_mb}MB)"
DetailTooLarge ==
  <<"F", "i", "l", "e", " ", "t", "o", "o", " ", "l", "a", "r", "g",
    "e", " ", "(", "m", "a", "x", " ", "5", "0", "M", "B", ")">>

(***************************************************************************)
(* State                                                                   *)
(***************************************************************************)

VARIABLES
  sessions,   \* main.py sessions: session id -> session dict
  files,      \* session id -> the document saved as completed.docx
  request,    \* the request being answered: its endpoint and body
  response,   \* the response to it
  llm,        \* the call of the language model made for it, if any
  text,       \* find_placeholders alone: its input text
  found,      \* find_placeholders alone: its result
  user_input, \* find_best_placeholder_match alone: the user's message
  unfilled_placeholders,  \* find_best_placeholder_match alone: candidates
  match_result,           \* find_best_placeholder_match alone: its result
  inferred,   \* infer_placeholder_type alone: its input and its results
  tasks,      \* POST /chat step by step: the coroutine of each request
  loop        \* POST /chat step by step: the coroutine the event loop runs

\* what find_best_placeholder_match alone reads and writes
matchVars == <<user_input, unfilled_placeholders, match_result>>

\* what the coroutines of POST /chat, taken step by step, read and write
turnVars == <<tasks, loop>>

vars ==
  <<sessions, files, request, response, llm, text, found, matchVars, inferred,
    turnVars>>

(***************************************************************************)
(* Bounds and inputs                                                       *)
(***************************************************************************)

\* calls of the language model over all sessions
MaxTurns == 2

\* uuid4 values
SessionIds == {"s1"}

\* uploaded documents: no placeholder; one; two, with a later occurrence
\* that differs from the first in case and padding
DocNone == << <<"h", "i">> >>

DocOne == << <<"[", "A", "]">> >>

DocTwo == << <<"[", "A", "]", " ", "[", "b", "]">>, <<"[", " ", "a", " ", "]">> >>

Documents == {DocNone, DocOne, DocTwo}

\* uploads: a .docx python-docx opens, for each document; a file of another
\* type; a file over the size limit; a .docx python-docx cannot open
UploadFiles ==
  {[is_docx |-> TRUE, size |-> 1024, opens |-> TRUE, document |-> d] :
     d \in Documents}
  \cup {[is_docx |-> FALSE, size |-> 1024, opens |-> TRUE, document |-> DocNone],
        [is_docx |-> TRUE, size |-> max_file_size_mb * 1024 * 1024 + 1,
         opens |-> TRUE, document |-> DocNone],
        [is_docx |-> TRUE, size |-> 1024, opens |-> FALSE, document |-> DocNone]}

\* request.message
Utterances == {<<"h", "i">>}

\* field names the model reports: a placeholder's exact name, the same name
\* in another case, a second placeholder, a name no placeholder has
ReportNames == {<<"A">>, <<"a">>, <<"b">>, <<"c">>}

\* values the model reports: a string, the empty string, JSON null
ReportValues == {<<"v">>, <<>>, None}

ReportPairs == [key : ReportNames, value : ReportValues]

\* reported dicts: none, one or two pairs, with distinct keys
ReportDicts ==
  {d \in UNION {[1..n -> ReportPairs] : n \in {0, 1, 2}} :
     \A i, j \in 1..Len(d) : i # j => d[i].key # d[j].key}

NoLoads ==
  [ok |-> FALSE, assistant_message |-> Absent,
   filled_values |-> [tag |-> "absent", items |-> <<>>],
   next_placeholder |-> Absent]

\* a reported field name that holds a placeholder's name and more
LongerName == <<"b", "c">>

\* parsed objects: every reported dict in an answer with a message and a
\* null next_placeholder; around a few values of filled_values, every
\* combination of a missing key, a null and a name; and an answer that
\* reports LongerName
ParsedObjects ==
  [ok : {TRUE},
   assistant_message : {<<"o", "k">>},
   filled_values : {[tag |-> "dict", items |-> d] : d \in ReportDicts},
   next_placeholder : {None}]
  \cup
  [ok : {TRUE},
   assistant_message : {Absent, <<"o", "k">>},
   filled_values : {[tag |-> "absent", items |-> <<>>],
                    [tag |-> "other", items |-> <<>>],
                    [tag |-> "dict",
                     items |-> <<[key |-> <<"A">>, value |-> <<"v">>]>>]},
   next_placeholder : {Absent, None, <<"b">>}]
  \cup
  {[ok |-> TRUE, assistant_message |-> <<"o", "k">>,
    filled_values |->
      [tag |-> "dict", items |-> <<[key |-> LongerName, value |-> <<"v">>]>>],
    next_placeholder |-> None]}

\* "..." stands for the JSON text between the braces
JsonText == <<"{", "...", "}">>

Replies ==
  {[raises |-> TRUE, content |-> <<>>, loads |-> NoLoads],
   [raises |-> FALSE, content |-> <<"h", "m">>, loads |-> NoLoads],
   [raises |-> FALSE, content |-> JsonText, loads |-> NoLoads]}
  \cup {[raises |-> FALSE, content |-> JsonText, loads |-> l] :
          l \in ParsedObjects}

(***************************************************************************)
(* Handlers                                                                *)
(***************************************************************************)

\* find_best_placeholder_match was not called
NotMatched == [done |-> FALSE]

\* infer_placeholder_type was not called
NotInferred == [placeholder_name |-> <<>>, context |-> <<>>, results |-> <<>>]

\* no request has a coroutine
NoTasks == [t \in {} |-> {}]

\* the event loop runs no coroutine
NoTask == "idle"

NoSessions == [id \in {} |-> {}]

\* no request is being answered
NoRequest == [op |-> "none"]

NoResponse == [status |-> 0]

\* the language model was not called
NoCall == [called |-> FALSE]

\* the handlers are coroutines of one event loop and none of chat,
\* download_document and get_status awaits anything that suspends it, so a
\* request is answered before the next one is looked at
Idle == request = NoRequest

Init ==
  /\ sessions = NoSessions
  /\ files = NoSessions
  /\ request = NoRequest
  /\ response = NoResponse
  /\ llm = NoCall
  /\ text = <<>>
  /\ found = [done |-> FALSE, placeholders |-> <<>>]
  /\ user_input = <<>>
  /\ unfilled_placeholders = <<>>
  /\ match_result = NotMatched
  /\ inferred = NotInferred
  /\ tasks = NoTasks
  /\ loop = NoTask

\* language-model calls made so far
Turns(ss) ==
  LET RECURSIVE Sum(_)
      Sum(S) == IF S = {} THEN 0
                ELSE LET id == CHOOSE id \in S : TRUE
                     IN  Len(ss[id].conversation_history) \div 2
                           + Sum(S \ {id})
  IN  Sum(DOMAIN ss)

\* POST /upload
upload_document(file) ==
  /\ Idle
  /\ request' = [op |-> "upload", file |-> file]
  /\ UNCHANGED <<files, llm, text, found, matchVars,
             inferred, turnVars>>
  /\ IF ~file.is_docx
       THEN /\ response' = [status |-> 400, detail |-> DetailNotDocx]
            /\ UNCHANGED sessions
     ELSE IF file.size > max_file_size_mb * 1024 * 1024
       THEN /\ response' = [status |-> 400, detail |-> DetailTooLarge]
            /\ UNCHANGED sessions
     ELSE IF ~file.opens
       THEN /\ response' = [status |-> 500, detail |-> DetailUploadError]
            /\ UNCHANGED sessions
     ELSE \E session_id \in SessionIds \ DOMAIN sessions :
            LET document_text == extract_document_text(file.document)
                placeholders == find_placeholders(document_text)
            IN  /\ sessions' =
                     (session_id :> [document |-> file.document,
                                     document_text |-> document_text,
                                     placeholders |-> placeholders,
                                     filled_values |-> <<>>,
                                     conversation_history |-> <<>>])
                       @@ sessions
                /\ response' = [status |-> 200,
                                session_id |-> session_id,
                                placeholders |-> placeholders]

\* the session dict after the update loop of chat
ChatUpdate(session, turn) ==
  LET st == ApplyPairs([placeholders |-> session.placeholders,
                        filled_values |-> session.filled_values],
                       turn.result.filled_values, 1)
  IN  [session EXCEPT !.placeholders = st.placeholders,
                      !.filled_values = st.filled_values,
                      !.conversation_history = turn.conversation_history]

\* what chat returns: the ChatResponse, or HTTP 500 when building it raises
ChatReturn(session, turn) ==
  IF ChatResponseValid(session.filled_values)
    THEN [status |-> 200,
          assistant_message |-> turn.result.assistant_message,
          filled_values |-> session.filled_values,
          placeholders |-> session.placeholders,
          next_question |-> turn.result.next_placeholder]
    ELSE [status |-> 500, detail |-> DetailChatError]

\* POST /chat.  reply is what the language model answers in this turn (the
\* answer it would give, in a turn that does not call it).
chat(session_id, message, reply) ==
  /\ Idle
  /\ request' = [op |-> "chat", session_id |-> session_id,
                 message |-> message]
  /\ UNCHANGED <<files, text, found, matchVars,
             inferred, turnVars>>
  /\ IF session_id \notin DOMAIN sessions
       THEN /\ response' = [status |-> 404, detail |-> DetailSessionExpired]
            /\ llm' = NoCall
            /\ UNCHANGED sessions
       ELSE LET session == sessions[session_id]
                turn == chat_for_placeholders(message, session.placeholders,
                          session.conversation_history, reply)
                updated == ChatUpdate(session, turn)
            IN  /\ turn.llm_called => Turns(sessions) < MaxTurns
                /\ llm' = IF turn.llm_called
                            THEN [called |-> TRUE, reply |-> reply]
                            ELSE NoCall
                /\ sessions' = [sessions EXCEPT ![session_id] = updated]
                /\ response' = ChatReturn(updated, turn)

RECURSIVE JoinNames(_)
\* ", ".join(names)
JoinNames(names) ==
  IF names = <<>> THEN <<>>
  ELSE IF Len(names) = 1 THEN names[1]
  ELSE names[1] \o <<",", " ">> \o JoinNames(Tail(names))

\* UnfilledNames with the bug of looking at the first placeholder only
UnfilledNamesFirstOnly(placeholders) ==
  IF placeholders # <<>> /\ ~placeholders[1].filled
    THEN <<placeholders[1].name>> ELSE <<>>

\* the gate of download_document: the names of the unfilled placeholders
UnfilledNames(placeholders) ==
  LET unfilled == Unfilled(placeholders)
  IN  [i \in 1..Len(unfilled) |-> unfilled[i].name]

\* POST /download
download_document(session_id) ==
  /\ Idle
  /\ request' = [op |-> "download", session_id |-> session_id]
  /\ UNCHANGED <<sessions, llm, text, found, matchVars,
             inferred, turnVars>>
  /\ IF session_id \notin DOMAIN sessions
       THEN /\ response' = [status |-> 404, detail |-> DetailSessionInvalid]
            /\ UNCHANGED files
     ELSE IF UnfilledNames(sessions[session_id].placeholders) # <<>>
       THEN /\ response' =
                 [status |-> 400,
                  detail |-> DetailPleaseFill \o
                    JoinNames(UnfilledNames(sessions[session_id].placeholders))]
            /\ UNCHANGED files
     ELSE LET completed == fill_placeholders(sessions[session_id].document,
                                             sessions[session_id].filled_values)
          IN  /\ files' = (session_id :> completed) @@ files
              /\ response' = [status |-> 200, file |-> completed]

\* FilledCount with the bug of counting p.get("value") instead of
\* p.get("filled")
FilledCountByValue(placeholders) ==
  Cardinality({i \in 1..Len(placeholders) :
                 placeholders[i].value # None /\ placeholders[i].value # <<>>})

\* filled_count = sum(1 for p in placeholders if p.get("filled"))
FilledCount(placeholders) ==
  Cardinality({i \in 1..Len(placeholders) : placeholders[i].filled})

\* GET /status/{session_id}
get_status(session_id) ==
  /\ Idle
  /\ request' = [op |-> "status", session_id |-> session_id]
  /\ UNCHANGED <<sessions, files, llm, text, found, matchVars,
             inferred, turnVars>>
  /\ IF session_id \notin DOMAIN sessions
       THEN response' = [status |-> 404, detail |-> DetailSessionNotFound]
       ELSE LET placeholders == sessions[session_id].placeholders
                filled_count == FilledCount(placeholders)
                total_count == Len(placeholders)
            IN  response' = [status |-> 200,
                             session_id |-> session_id,
                             placeholders |-> placeholders,
                             progress |-> <<filled_count, total_count>>,
                             completed |-> filled_count = total_count]

\* the response is sent; the next request can be answered
Return ==
  /\ ~Idle
  /\ request' = NoRequest
  /\ response' = NoResponse
  /\ llm' = NoCall
  /\ UNCHANGED <<sessions, files, text, found, matchVars,
             inferred, turnVars>>

Next ==
  \/ \E file \in UploadFiles : upload_document(file)
  \/ \E session_id \in SessionIds, message \in Utterances, reply \in Replies :
       chat(session_id, message, reply)
  \/ \E session_id \in SessionIds : download_document(session_id)
  \/ \E session_id \in SessionIds : get_status(session_id)
  \/ Return

Spec == Init /\ [][Next]_vars

(***************************************************************************)
(* find_placeholders alone, on every text of a bounded set                 *)
(***************************************************************************)

\* length of the texts enumerated character by character
MaxTextLen == 6

\* pieces joined into one of the longer texts
MaxPieces == 3

TextChars == {"[", "]", " ", "a", "A"}

ShortTexts == UNION {[1..n -> TextChars] : n \in 0..MaxTextLen}

\* more text than a context window holds
Filler == [i \in 1..(ContextWidth + 1) |-> "x"]

\* bracket spans whose names differ, or differ only in case or in padding
Pieces ==
  {<<"[", "A", "]">>, <<"[", " ", "a", " ", "]">>, <<"[", "b", "]">>, Filler}

RECURSIVE Concat(_)
Concat(parts) ==
  IF parts = <<>> THEN <<>> ELSE Head(parts) \o Concat(Tail(parts))

PieceTexts == {Concat(ps) : ps \in UNION {[1..n -> Pieces] : n \in 0..MaxPieces}}

\* "Between [Investor Name] and [Company Name], dated [Date]."
ScenarioText ==
  <<"B", "e", "t", "w", "e", "e", "n", " ", "[", "I", "n", "v",
    "e", "s", "t", "o", "r", " ", "N", "a", "m", "e", "]", " ",
    "a", "n", "d", " ", "[", "C", "o", "m", "p", "a", "n", "y",
    " ", "N", "a", "m", "e", "]", ",", " ", "d", "a", "t", "e",
    "d", " ", "[", "D", "a", "t", "e", "]", ".">>

Texts == ShortTexts \cup PieceTexts \cup {ScenarioText}

InitExtract ==
  /\ sessions = NoSessions
  /\ files = NoSessions
  /\ request = NoRequest
  /\ response = NoResponse
  /\ llm = NoCall
  /\ text \in Texts
  /\ found = [done |-> FALSE, placeholders |-> <<>>]
  /\ user_input = <<>>
  /\ unfilled_placeholders = <<>>
  /\ match_result = NotMatched
  /\ inferred = NotInferred
  /\ tasks = NoTasks
  /\ loop = NoTask

\* placeholders = find_placeholders(text)
extract ==
  /\ ~found.done
  /\ found' = [done |-> TRUE, placeholders |-> find_placeholders(text)]
  /\ UNCHANGED <<sessions, files, request, response, llm, text, matchVars,
             inferred, turnVars>>

NextExtract == extract

SpecExtract == InitExtract /\ [][NextExtract]_vars

(***************************************************************************)
(* find_best_placeholder_match alone, on bounded inputs                    *)
(***************************************************************************)

\* candidates handed to find_best_placeholder_match
MaxCandidates == 3

\* "The company is ABC Corp": scenario 2
UtterScenario ==
  <<"T", "h", "e", " ", "c", "o", "m", "p", "a", "n", "y", " ", "i",
    "s", " ", "A", "B", "C", " ", "C", "o", "r", "p">>

\* "Company Name: ABC": holds a candidate's whole name
UtterFullName ==
  <<"C", "o", "m", "p", "a", "n", "y", " ", "N", "a", "m", "e", ":",
    " ", "A", "B", "C">>

\* "the date is 1/2/2025": holds keywords of the type date
UtterDate ==
  <<"t", "h", "e", " ", "d", "a", "t", "e", " ", "i", "s", " ", "1",
    "/", "2", "/", "2", "0", "2", "5">>

\* "a b": holds the names of two candidates: a tie above zero
UtterAB ==
  <<"a", " ", "b">>

\* "??": holds nothing of any candidate: a tie at zero
UtterNothing ==
  <<"?", "?">>

\* user messages
MatchUtterances ==
  {UtterScenario, UtterFullName, UtterDate, UtterAB, UtterNothing, <<>>}

\* "Company Name"
NameCompany ==
  <<"C", "o", "m", "p", "a", "n", "y", " ", "N", "a", "m", "e">>

\* "Date"
NameDate ==
  <<"D", "a", "t", "e">>

\* "Purchase Amount"
NameAmount ==
  <<"P", "u", "r", "c", "h", "a", "s", "e", " ", "A", "m", "o", "u",
    "n", "t">>

CandidateNames == {NameCompany, NameDate, NameAmount, <<"A">>, <<"b">>}

\* a candidate as find_placeholders returns it for a text that holds
\* nothing but its bracket: typed company_name, date, currency, text, text
Candidate(name) == find_placeholders(Bracketed(name))[1]

\* the unfilled placeholders of a session: up to MaxCandidates different
\* candidates, in any order
CandidateLists ==
  {[i \in 1..Len(names) |-> Candidate(names[i])] :
     names \in {c \in UNION {[1..n -> CandidateNames] : n \in 0..MaxCandidates} :
                  \A i, j \in 1..Len(c) : i # j => c[i] # c[j]}}

InitMatch ==
  /\ sessions = NoSessions
  /\ files = NoSessions
  /\ request = NoRequest
  /\ response = NoResponse
  /\ llm = NoCall
  /\ text = <<>>
  /\ found = [done |-> FALSE, placeholders |-> <<>>]
  /\ user_input \in MatchUtterances
  /\ unfilled_placeholders \in CandidateLists
  /\ match_result = NotMatched
  /\ inferred = NotInferred
  /\ tasks = NoTasks
  /\ loop = NoTask

\* match_result = find_best_placeholder_match(message, unfilled)
match ==
  /\ ~match_result.done
  /\ match_result' =
       [done |-> TRUE,
        result |-> find_best_placeholder_match(user_input,
                                               unfilled_placeholders),
        scored |-> ScoredCandidates(unfilled_placeholders)]
  /\ UNCHANGED <<sessions, files, request, response, llm, text, found,
                 user_input, unfilled_placeholders, inferred, turnVars>>

NextMatch == match

SpecMatch == InitMatch /\ [][NextMatch]_vars

(***************************************************************************)
(* infer_placeholder_type alone: called on a name and a context, more than *)
(* once                                                                    *)
(***************************************************************************)

\* calls of infer_placeholder_type on one input
MaxCalls == 2

\* "Date"
InferDate ==
  <<"D", "a", "t", "e">>

\* "Purchase Amount"
InferAmount ==
  <<"P", "u", "r", "c", "h", "a", "s", "e", " ", "A", "m", "o",
      "u", "n", "t">>

\* "Company Name"
InferCompany ==
  <<"C", "o", "m", "p", "a", "n", "y", " ", "N", "a", "m", "e">>

\* "Investor Name"
InferInvestor ==
  <<"I", "n", "v", "e", "s", "t", "o", "r", " ", "N", "a", "m", "e">>

\* "Contact"
InferContact ==
  <<"C", "o", "n", "t", "a", "c", "t">>

\* "A"
InferPlain ==
  <<"A">>

\* "Email"
InferEmail ==
  <<"E", "m", "a", "i", "l">>

\* "MR"
InferMr ==
  <<"M", "R">>

\* "Signed"
InferSigned ==
  <<"S", "i", "g", "n", "e", "d">>

\* ""
InferEmpty ==
  <<>>

InferNames ==
  {InferDate, InferAmount, InferCompany, InferInvestor, InferContact,
   InferPlain, InferEmail, InferMr, InferSigned, InferEmpty}

\* ""
ContextNone ==
  <<>>

\* "paid in dollars ($)"
ContextPaid ==
  <<"p", "a", "i", "d", " ", "i", "n", " ", "d", "o", "l", "l",
      "a", "r", "s", " ", "(", "$", ")">>

\* "the date of payment, month and year"
ContextDated ==
  <<"t", "h", "e", " ", "d", "a", "t", "e", " ", "o", "f", " ",
      "p", "a", "y", "m", "e", "n", "t", ",", " ", "m", "o", "n",
      "t", "h", " ", "a", "n", "d", " ", "y", "e", "a", "r">>

\* "the Company, a Delaware corporation"
ContextCompany ==
  <<"t", "h", "e", " ", "C", "o", "m", "p", "a", "n", "y", ",",
      " ", "a", " ", "D", "e", "l", "a", "w", "a", "r", "e", " ",
      "c", "o", "r", "p", "o", "r", "a", "t", "i", "o", "n">>

\* "call or mail (office)"
ContextReach ==
  <<"c", "a", "l", "l", " ", "o", "r", " ", "m", "a", "i", "l",
      " ", "(", "o", "f", "f", "i", "c", "e", ")">>

\* "to be agreed"
ContextNothing ==
  <<"t", "o", " ", "b", "e", " ", "a", "g", "r", "e", "e", "d">>

InferContexts ==
  {ContextNone, ContextPaid, ContextDated,
   ContextCompany, ContextReach, ContextNothing}

InitInfer ==
  /\ sessions = NoSessions
  /\ files = NoSessions
  /\ request = NoRequest
  /\ response = NoResponse
  /\ llm = NoCall
  /\ text = <<>>
  /\ found = [done |-> FALSE, placeholders |-> <<>>]
  /\ user_input = <<>>
  /\ unfilled_placeholders = <<>>
  /\ match_result = NotMatched
  /\ inferred \in [placeholder_name : InferNames, context : InferContexts,
                   results : {<<>>}]
  /\ tasks = NoTasks
  /\ loop = NoTask

\* infer_placeholder_type(placeholder_name, context), once more
infer ==
  /\ Len(inferred.results) < MaxCalls
  /\ inferred' =
       [inferred EXCEPT
          !.results = Append(@, infer_placeholder_type(
                                  inferred.placeholder_name,
                                  inferred.context))]
  /\ UNCHANGED <<sessions, files, request, response, llm, text, found,
                 matchVars, turnVars>>

NextInfer == infer

SpecInfer == InitInfer /\ [][NextInfer]_vars

(***************************************************************************)
(* POST /chat step by step.  uvicorn.run(app) serves every request on one  *)
(* event loop; a request's coroutine keeps the loop from the moment it is  *)
(* started until it awaits something that suspends it, or returns.         *)
(***************************************************************************)

\* coroutines of POST /chat requests
TaskIds == {"t1", "t2"}

\* ids of two uploaded sessions
TurnSessionIds == {"s1", "s2"}

\* an id no session has
UnknownSessionId == "s0"

\* the session upload_document stores for the document
UploadedSession(document) ==
  [document |-> document,
   document_text |-> extract_document_text(document),
   placeholders |-> find_placeholders(extract_document_text(document)),
   filled_values |-> <<>>,
   conversation_history |-> <<>>]

\* the model's answer with the reported dict
ReplyReporting(items) ==
  [raises |-> FALSE, content |-> JsonText,
   loads |-> [ok |-> TRUE, assistant_message |-> <<"o", "k">>,
              filled_values |-> [tag |-> "dict", items |-> items],
              next_placeholder |-> None]]

\* what the model does in a turn: it raises; it reports one pair; it
\* reports two pairs
TurnReplies ==
  {[raises |-> TRUE, content |-> <<>>, loads |-> NoLoads],
   ReplyReporting(<<[key |-> <<"A">>, value |-> <<"v">>]>>),
   ReplyReporting(<<[key |-> <<"a">>, value |-> <<>>],
                    [key |-> <<"b">>, value |-> <<"v">>]>>)}

\* no request has arrived for the coroutine
FreeTask == [pc |-> "free"]

\* Suspends for a chat_for_placeholders that awaits the model's answer
\* (await llm.ainvoke(messages))
SuspendsAtCall(pc) == pc = "calling"

\* the coroutine at this point is suspended and the loop runs another one:
\* chat awaits chat_for_placeholders only, which awaits nothing, and
\* llm.invoke is a blocking call
Suspends(pc) == FALSE

\* the event loop can run a step of the coroutine
Runnable(t) ==
  \/ loop = t
  \/ /\ loop = NoTask
     /\ tasks[t].pc = "ready" \/ Suspends(tasks[t].pc)

\* the coroutine the loop runs once the step has taken t to pc
Yield(t, pc) == IF pc = "done" \/ Suspends(pc) THEN NoTask ELSE t

InitTurns ==
  /\ sessions = [id \in TurnSessionIds |-> UploadedSession(DocTwo)]
  /\ files = NoSessions
  /\ request = NoRequest
  /\ response = NoResponse
  /\ llm = NoCall
  /\ text = <<>>
  /\ found = [done |-> FALSE, placeholders |-> <<>>]
  /\ user_input = <<>>
  /\ unfilled_placeholders = <<>>
  /\ match_result = NotMatched
  /\ inferred = NotInferred
  /\ tasks = [t \in TaskIds |-> FreeTask]
  /\ loop = NoTask

\* a POST /chat request arrives: its coroutine is created.  reply is what
\* the language model answers in this turn, if the turn calls it.
accept(t, session_id, message, reply) ==
  /\ tasks[t] = FreeTask
  /\ tasks' = [tasks EXCEPT ![t] = [pc |-> "ready", session_id |-> session_id,
                                    message |-> message, reply |-> reply]]
  /\ UNCHANGED <<sessions, files, request, response, llm, text, found,
                 matchVars, inferred, loop>>

\* chat up to the call of the model: the session is looked up, the unfilled
\* placeholders are collected and the user message is appended
chat_enter(t) ==
  /\ tasks[t].pc = "ready"
  /\ Runnable(t)
  /\ UNCHANGED <<files, request, response, llm, text, found, matchVars,
                 inferred>>
  /\ LET task == tasks[t]
     IN  IF task.session_id \notin DOMAIN sessions
           THEN /\ tasks' =
                     [tasks EXCEPT ![t] =
                        [pc |-> "done", session_id |-> task.session_id,
                         response |-> [status |-> 404,
                                       detail |-> DetailSessionExpired]]]
                /\ loop' = Yield(t, "done")
                /\ UNCHANGED sessions
         ELSE LET session == sessions[task.session_id]
              IN  IF Unfilled(session.placeholders) = <<>>
                    THEN /\ tasks' =
                              [tasks EXCEPT ![t] =
                                 [pc |-> "applying",
                                  session_id |-> task.session_id,
                                  message |-> task.message,
                                  reply |-> task.reply,
                                  seen |-> session,
                                  result |->
                                    [assistant_message |-> MsgAllFilled,
                                     filled_values |-> <<>>,
                                     next_placeholder |-> None],
                                  k |-> 1]]
                         /\ loop' = Yield(t, "applying")
                         /\ UNCHANGED sessions
                    ELSE /\ tasks' =
                              [tasks EXCEPT ![t] =
                                 [pc |-> "calling",
                                  session_id |-> task.session_id,
                                  message |-> task.message,
                                  reply |-> task.reply,
                                  seen |-> session]]
                         /\ sessions' =
                              [sessions EXCEPT
                                 ![task.session_id].conversation_history =
                                   Append(@, [role |-> "user",
                                              content |-> task.message])]
                         /\ loop' = Yield(t, "calling")

\* chat_for_placeholders from the call of the model on: the answer is
\* parsed and the assistant message is appended
chat_invoke(t) ==
  /\ tasks[t].pc = "calling"
  /\ Runnable(t)
  /\ LET task == tasks[t]
         result == LLMResult(task.reply)
     IN  /\ tasks' = [tasks EXCEPT ![t] =
                        [pc |-> "applying", session_id |-> task.session_id,
                         message |-> task.message, reply |-> task.reply,
                         seen |-> task.seen, result |-> result, k |-> 1]]
         /\ sessions' =
              [sessions EXCEPT
                 ![task.session_id].conversation_history =
                   Append(@, [role |-> "assistant",
                              content |-> result.assistant_message])]
         /\ loop' = Yield(t, "applying")
  /\ UNCHANGED <<files, request, response, llm, text, found, matchVars,
                 inferred>>

\* one iteration of the update loop of chat
chat_apply(t) ==
  /\ tasks[t].pc = "applying"
  /\ Runnable(t)
  /\ tasks[t].k <= Len(tasks[t].result.filled_values)
  /\ LET task == tasks[t]
         session == sessions[task.session_id]
         pair == task.result.filled_values[task.k]
         st == ApplyPair([placeholders |-> session.placeholders,
                          filled_values |-> session.filled_values],
                         pair.key, pair.value)
     IN  /\ sessions' =
              [sessions EXCEPT
                 ![task.session_id].placeholders = st.placeholders,
                 ![task.session_id].filled_values = st.filled_values]
         /\ tasks' = [tasks EXCEPT ![t].k = @ + 1]
         /\ loop' = Yield(t, "applying")
  /\ UNCHANGED <<files, request, response, llm, text, found, matchVars,
                 inferred>>

\* chat after the update loop: the response is built from the session
chat_return(t) ==
  /\ tasks[t].pc = "applying"
  /\ Runnable(t)
  /\ tasks[t].k > Len(tasks[t].result.filled_values)
  /\ LET task == tasks[t]
     IN  tasks' =
           [tasks EXCEPT ![t] =
              [pc |-> "done", session_id |-> task.session_id,
               response |->
                 ChatReturn(sessions[task.session_id],
                            [result |-> task.result])]]
  /\ loop' = Yield(t, "done")
  /\ UNCHANGED <<sessions, files, request, response, llm, text, found,
                 matchVars, inferred>>

NextTurns ==
  \/ \E t \in TaskIds, session_id \in TurnSessionIds \cup {UnknownSessionId},
        message \in Utterances, reply \in TurnReplies :
       accept(t, session_id, message, reply)
  \/ \E t \in TaskIds : chat_enter(t)
  \/ \E t \in TaskIds : chat_invoke(t)
  \/ \E t \in TaskIds : chat_apply(t)
  \/ \E t \in TaskIds : chat_return(t)

SpecTurns == InitTurns /\ [][NextTurns]_vars

(***************************************************************************)
(* Properties                                                              *)
(***************************************************************************)

\* a request to endpoint op for session session_id starts being answered
\* in this step
Answers(op, session_id) ==
  /\ Idle
  /\ request'.op = op
  /\ request'.session_id = session_id

AllFilled(placeholders) ==
  \A i \in 1..Len(placeholders) : placeholders[i].filled

SomeUnfilled(placeholders) ==
  \E i \in 1..Len(placeholders) : ~placeholders[i].filled

RECURSIVE NamesNotFilled(_)
\* the names of the placeholders with filled = FALSE, in list order
NamesNotFilled(placeholders) ==
  IF placeholders = <<>> THEN <<>>
  ELSE (IF Head(placeholders).filled THEN <<>> ELSE <<Head(placeholders).name>>)
         \o NamesNotFilled(Tail(placeholders))

\* C1: a download request for a session with an unfilled placeholder is
\* answered 400 with the names of the unfilled placeholders, in order; no
\* completed document is written (fill_placeholders is not run) and the
\* session is as it was.
RenderGateClosed ==
  [][\A session_id \in DOMAIN sessions :
       (/\ Answers("download", session_id)
        /\ SomeUnfilled(sessions[session_id].placeholders))
       => /\ response'.status = 400
          /\ response'.detail =
               DetailPleaseFill
                 \o JoinNames(NamesNotFilled(sessions[session_id].placeholders))
          /\ files' = files
          /\ sessions' = sessions]_vars

\* C1 witness: a download was refused for a session that has a filled and
\* an unfilled placeholder
RenderRefusedPartlyFilled ==
  /\ request.op = "download"
  /\ request.session_id \in DOMAIN sessions
  /\ response.status = 400
  /\ request.session_id \notin DOMAIN files
  /\ SomeUnfilled(sessions[request.session_id].placeholders)
  /\ \E i \in 1..Len(sessions[request.session_id].placeholders) :
       sessions[request.session_id].placeholders[i].filled

\* C2: no step takes a session away, changes the number of its
\* placeholders or turns a placeholder's filled from TRUE to FALSE; so the
\* number of filled placeholders never decreases.
FillMonotonic ==
  [][\A session_id \in DOMAIN sessions :
       /\ session_id \in DOMAIN sessions'
       /\ Len(sessions'[session_id].placeholders)
            = Len(sessions[session_id].placeholders)
       /\ \A i \in 1..Len(sessions[session_id].placeholders) :
            sessions[session_id].placeholders[i].filled
              => sessions'[session_id].placeholders[i].filled
       /\ Cardinality({i \in 1..Len(sessions'[session_id].placeholders) :
                         sessions'[session_id].placeholders[i].filled})
            >= Cardinality({i \in 1..Len(sessions[session_id].placeholders) :
                              sessions[session_id].placeholders[i].filled})]_vars

\* C2 witness: a turn in which the call of the model raised, on a session
\* with a placeholder filled by an earlier turn; the placeholder is still
\* filled
FilledKeptThroughFailedTurn ==
  /\ request.op = "chat"
  /\ request.session_id \in DOMAIN sessions
  /\ llm.called
  /\ llm.reply.raises
  /\ \E i \in 1..Len(sessions[request.session_id].placeholders) :
       sessions[request.session_id].placeholders[i].filled

\* C3: a status request reports completed, and a download request gets
\* past the gate, exactly when every placeholder of the session is filled
\* (a session with no placeholder included).
CompleteIffAllFilled ==
  \A session_id \in DOMAIN sessions :
    /\ request = [op |-> "status", session_id |-> session_id]
         => /\ response.status = 200
            /\ response.completed
                 <=> AllFilled(sessions[session_id].placeholders)
    /\ request = [op |-> "download", session_id |-> session_id]
         => (response.status = 200
               <=> AllFilled(sessions[session_id].placeholders))

\* C3 witness: a status request reported completed for a session with two
\* placeholders
StatusReportsCompleted ==
  /\ request.op = "status"
  /\ response.status = 200
  /\ response.completed
  /\ Len(sessions[request.session_id].placeholders) = 2

\* C3, the boundary case: completed is reported for a session without
\* placeholders
StatusReportsCompletedEmpty ==
  /\ request.op = "status"
  /\ response.status = 200
  /\ response.completed
  /\ sessions[request.session_id].placeholders = <<>>

\* the (name, value) pairs the extraction step reported in the turn whose
\* call of the model is l
Reported(l) == IF l.called THEN LLMResult(l.reply).filled_values ELSE <<>>

\* the reported pairs whose name matches placeholder p
PairsFor(items, p) ==
  {k \in 1..Len(items) : Lower(items[k].key) = Lower(p.name)}

TwoPairsOnePlaceholder ==
  /\ request.op = "chat"
  /\ request.session_id \in DOMAIN sessions
  /\ Reported(llm) = <<[key |-> <<"A">>, value |-> <<"v">>],
                       [key |-> <<"a">>, value |-> <<>>]>>
  /\ sessions[request.session_id].placeholders[1].value = <<>>

\* the call of the model raised, or its answer holds no JSON object, or
\* json.loads rejects it
ExtractionFailed(reply) ==
  \/ reply.raises
  \/ ~HasJsonSpan(reply.content)
  \/ ~reply.loads.ok

\* C5: a chat turn whose extraction step raised or returned unparseable
\* output leaves every placeholder and the filled-values map as they were,
\* is answered with the assistant message of the failure (not with an
\* error), and leaves a placeholder to fill.
FailedTurnHarmless ==
  [][\A session_id \in DOMAIN sessions :
       (/\ Answers("chat", session_id)
        /\ llm'.called
        /\ ExtractionFailed(llm'.reply))
       => /\ sessions'[session_id].placeholders
               = sessions[session_id].placeholders
          /\ sessions'[session_id].filled_values
               = sessions[session_id].filled_values
          /\ SomeUnfilled(sessions'[session_id].placeholders)
          /\ response'.status = 200
          /\ response'.assistant_message
               = LLMResult(llm'.reply).assistant_message]_vars

\* C5, the failing case: a turn whose extraction step failed was answered
\* 500, the filled-values map holding a null from an earlier turn
FailedTurnAnswered500 ==
  /\ request.op = "chat"
  /\ request.session_id \in DOMAIN sessions
  /\ llm.called
  /\ ExtractionFailed(llm.reply)
  /\ response.status = 500
  /\ ~ChatResponseValid(sessions[request.session_id].filled_values)

\* C6: a chat turn on a session with no unfilled placeholder is answered
\* with the 'all fields are now filled' message, does not call the model
\* and leaves the session (placeholders, filled-values map, transcript) as
\* it was.
NothingLeftTurn ==
  [][\A session_id \in DOMAIN sessions :
       (/\ Answers("chat", session_id)
        /\ ~SomeUnfilled(sessions[session_id].placeholders))
       => /\ sessions' = sessions
          /\ ~llm'.called
          /\ response'.status = 200
          /\ response'.assistant_message = MsgAllFilled]_vars

\* C6, the failing case: a turn on a session with every placeholder filled
\* was answered 500 without a call of the model
NothingLeftAnswered500 ==
  /\ request.op = "chat"
  /\ request.session_id \in DOMAIN sessions
  /\ ~llm.called
  /\ AllFilled(sessions[request.session_id].placeholders)
  /\ response.status = 500

\* a chat turn on session_id that changes the value of placeholder i
ChatOverwrites(session_id, i) ==
  \E message \in Utterances, reply \in Replies :
    /\ chat(session_id, message, reply)
    /\ sessions'[session_id].placeholders[i].value
         # sessions[session_id].placeholders[i].value

\* C7: whenever every placeholder of a session is filled and no request is
\* being answered, a chat turn that changes the value of a filled
\* placeholder is possible.
CompleteReentrant ==
  \A session_id \in DOMAIN sessions :
    (/\ Idle
     /\ sessions[session_id].placeholders # <<>>
     /\ AllFilled(sessions[session_id].placeholders))
    => \E i \in 1..Len(sessions[session_id].placeholders) :
         ENABLED ChatOverwrites(session_id, i)

\* C7, the failing case: a session with a placeholder, all filled, and no
\* request being answered
CompleteAndIdle ==
  /\ Idle
  /\ \E session_id \in DOMAIN sessions :
       /\ sessions[session_id].placeholders # <<>>
       /\ AllFilled(sessions[session_id].placeholders)

\* C8: the next_question of the answer to a chat turn is the name of the
\* first placeholder, in list order, that is unfilled after the turn; it is
\* null exactly when no placeholder is unfilled.
NextQuestionFirstUnfilled ==
  \A session_id \in DOMAIN sessions :
    (/\ request.op = "chat"
     /\ request.session_id = session_id
     /\ response.status = 200)
    => response.next_question =
         (IF Unfilled(sessions[session_id].placeholders) = <<>>
            THEN None
            ELSE Unfilled(sessions[session_id].placeholders)[1].name)

\* C8, the failing case: a turn was answered with a null next_question
\* while a placeholder is unfilled
NextQuestionNullTooEarly ==
  /\ request.op = "chat"
  /\ request.session_id \in DOMAIN sessions
  /\ response.status = 200
  /\ response.next_question = None
  /\ SomeUnfilled(sessions[request.session_id].placeholders)

\* C9: the value of a placeholder is not null exactly when the placeholder
\* is filled.
ValueIffFilled ==
  \A session_id \in DOMAIN sessions :
    \A i \in 1..Len(sessions[session_id].placeholders) :
      sessions[session_id].placeholders[i].value # None
        <=> sessions[session_id].placeholders[i].filled

\* C9, the failing case: a placeholder is filled with a null value
FilledWithNull ==
  \E session_id \in DOMAIN sessions :
    \E i \in 1..Len(sessions[session_id].placeholders) :
      /\ sessions[session_id].placeholders[i].filled
      /\ sessions[session_id].placeholders[i].value = None

\* the stripped name of the k-th bracket match of t
MatchName(t, k) == Strip(Group1(t, finditer(t, 1)[k]))

\* the bracket matches of t that have a name: the stripped content of the
\* brackets is not empty
NamedMatches(t) ==
  {k \in 1..Len(finditer(t, 1)) : MatchName(t, k) # <<>>}

\* the first named match of t whose lowercased name is that of name
FirstMatchOf(t, name) ==
  SetMin({k \in NamedMatches(t) : Lower(MatchName(t, k)) = Lower(name)})

\* C10: find_placeholders returns one placeholder for each distinct
\* lowercased stripped name among the bracket matches of the text (a match
\* whose stripped content is empty has no name), and no other; the name and
\* the context of a placeholder are those of the first match with its
\* lowercased name, so a later match that differs from it in case or
\* padding adds nothing.
OnePerLoweredName ==
  found.done
  => LET ps == found.placeholders
     IN  /\ \A i, j \in 1..Len(ps) :
              Lower(ps[i].name) = Lower(ps[j].name) => i = j
         /\ {Lower(ps[i].name) : i \in 1..Len(ps)}
              = {Lower(MatchName(text, k)) : k \in NamedMatches(text)}
         /\ \A i \in 1..Len(ps) :
              /\ ps[i].name = MatchName(text, FirstMatchOf(text, ps[i].name))
              /\ ps[i].context =
                   ContextOf(text,
                             finditer(text, 1)[FirstMatchOf(text, ps[i].name)])

\* C10 witness: "[A]", more text than a context window holds, "[ a ]": one
\* placeholder, named A, whose context is not the context of the later
\* match
LaterSpellingMerged ==
  /\ found.done
  /\ text = <<"[", "A", "]">> \o Filler \o <<"[", " ", "a", " ", "]">>
  /\ Len(found.placeholders) = 1
  /\ found.placeholders[1].name = <<"A">>
  /\ found.placeholders[1].context = ContextOf(text, finditer(text, 1)[1])
  /\ found.placeholders[1].context # ContextOf(text, finditer(text, 1)[2])

\* the names of a list of placeholders
NamesOf(placeholders) ==
  [i \in 1..Len(placeholders) |-> placeholders[i].name]

\* the names of the named bracket matches of t that are the first match
\* with their lowercased name, in the order of the matches
FirstNames(t) ==
  LET matches == finditer(t, 1)
      names == [k \in 1..Len(matches) |-> Strip(Group1(t, matches[k]))]
      first == SelectSeq([k \in 1..Len(matches) |-> k],
                         LAMBDA k :
                           /\ names[k] # <<>>
                           /\ \A j \in 1..(k - 1) :
                                Lower(names[j]) # Lower(names[k]))
  IN  [i \in 1..Len(first) |-> names[first[i]]]

\* C11: the placeholders find_placeholders returns are in the order of
\* their first occurrence in the text (Investor Name, Company Name, Date
\* for the text of scenario 1); the placeholders of a session are, after
\* every step, those of its document text in that order, and no step
\* removes a session, changes its document text or changes the names, the
\* number or the order of its placeholders.
OrderOfFirstOccurrence ==
  [][/\ found'.done
          => /\ NamesOf(found'.placeholders) = FirstNames(text')
             /\ text' = ScenarioText
                  => NamesOf(found'.placeholders) =
                       <<<<"I", "n", "v", "e", "s", "t", "o", "r", " ",
                           "N", "a", "m", "e">>,
                         <<"C", "o", "m", "p", "a", "n", "y", " ",
                           "N", "a", "m", "e">>,
                         <<"D", "a", "t", "e">>>>
     /\ \A session_id \in DOMAIN sessions' :
          NamesOf(sessions'[session_id].placeholders)
            = FirstNames(sessions'[session_id].document_text)
     /\ \A session_id \in DOMAIN sessions :
          /\ session_id \in DOMAIN sessions'
          /\ sessions'[session_id].document_text
               = sessions[session_id].document_text
          /\ NamesOf(sessions'[session_id].placeholders)
               = NamesOf(sessions[session_id].placeholders)]_vars

\* C11 witness: a chat turn filled the second placeholder of a session
\* and not the first; the placeholders are A, b as in the document
SecondFilledFirst ==
  /\ request.op = "chat"
  /\ request.session_id \in DOMAIN sessions
  /\ sessions[request.session_id].document = DocTwo
  /\ NamesOf(sessions[request.session_id].placeholders)
       = <<<<"A">>, <<"b">>>>
  /\ ~sessions[request.session_id].placeholders[1].filled
  /\ sessions[request.session_id].placeholders[2].filled

\* C12: with one candidate find_best_placeholder_match returns it with
\* confidence 1.0, whatever the user's message, and scores nothing; with
\* no candidate it returns None.
SingleCandidateShortcut ==
  match_result.done
  => /\ Len(unfilled_placeholders) = 1
          => /\ match_result.result
                  = <<unfilled_placeholders[1], FullConfidence>>
             /\ match_result.scored = <<>>
     /\ unfilled_placeholders = <<>>
          => /\ match_result.result = None
             /\ match_result.scored = <<>>

\* C12 witness: the only candidate was returned with confidence 1.0 for a
\* message in which calculate_match_score finds nothing of it
SingleCandidateUnrelatedMessage ==
  /\ match_result.done
  /\ Len(unfilled_placeholders) = 1
  /\ calculate_match_score(user_input, unfilled_placeholders[1]) = 0
  /\ match_result.result[1] = unfilled_placeholders[1]
  /\ match_result.result[2] = FullConfidence

\* find_best_placeholder_match was applied to the inputs of scenario 2
ScenarioTwo ==
  /\ match_result.done
  /\ user_input = UtterScenario
  /\ Len(unfilled_placeholders) = 2
  /\ unfilled_placeholders[1].name = NameCompany
  /\ unfilled_placeholders[1].type = "company_name"
  /\ unfilled_placeholders[2].name = NameDate
  /\ unfilled_placeholders[2].type = "date"

\* C13 (as stated): in scenario 2 the scorer selects Company Name with a
\* score of at least 100 and a confidence of 1.0.
ScenarioTwoFullScore ==
  ScenarioTwo
  => /\ match_result.result[1].name = NameCompany
     /\ calculate_match_score(user_input, match_result.result[1]) >= 100
     /\ match_result.result[2] = FullConfidence

\* C13: in scenario 2 the scorer selects Company Name with a score of 75
\* (25 for the name part 'company', 15 for each of the keywords 'company',
\* 'corp' and 'co', 5 for the description word 'company'; the whole name
\* 'company name' does not occur in the message) and a confidence of 0.75;
\* the score of Date is 0.
ScenarioTwoPartScore ==
  ScenarioTwo
  => /\ match_result.result[1] = unfilled_placeholders[1]
     /\ calculate_match_score(user_input, unfilled_placeholders[1]) = 75
     /\ calculate_match_score(user_input, unfilled_placeholders[2]) = 0
     /\ match_result.result[2] = 75

\* C13 witness: scenario 2 was scored and Company Name selected
ScenarioTwoSelectsCompany ==
  /\ ScenarioTwo
  /\ match_result.result[1].name = NameCompany
  /\ match_result.scored = unfilled_placeholders

\* the 1-based position in the candidate list of the placeholder returned
ReturnedIndex ==
  CHOOSE i \in 1..Len(unfilled_placeholders) :
    unfilled_placeholders[i] = match_result.result[1]

\* C16: with two or more candidates find_best_placeholder_match returns a
\* candidate of the list whose score no candidate exceeds and no earlier
\* candidate equals, with confidence min(score / 100, 1.0).
MaxScoreFirstWins ==
  (match_result.done /\ Len(unfilled_placeholders) >= 2)
  => /\ \E i \in 1..Len(unfilled_placeholders) :
          unfilled_placeholders[i] = match_result.result[1]
     /\ LET score == calculate_match_score(user_input,
                                           match_result.result[1])
        IN  /\ \A j \in 1..Len(unfilled_placeholders) :
                 LET other == calculate_match_score(user_input,
                                                    unfilled_placeholders[j])
                 IN  /\ other <= score
                     /\ j < ReturnedIndex => other < score
            /\ match_result.result[2] =
                 (IF score < 100 THEN score ELSE 100)

\* C16 witness: the first two of three candidates tie for the highest
\* score, above zero, and the first was returned
TieAboveZeroFirstWins ==
  /\ match_result.done
  /\ Len(unfilled_placeholders) = 3
  /\ calculate_match_score(user_input, unfilled_placeholders[1]) > 0
  /\ calculate_match_score(user_input, unfilled_placeholders[1])
       = calculate_match_score(user_input, unfilled_placeholders[2])
  /\ calculate_match_score(user_input, unfilled_placeholders[3])
       < calculate_match_score(user_input, unfilled_placeholders[1])
  /\ match_result.result[1] = unfilled_placeholders[1]

\* C16, the all-zero case: no candidate scores and the first was returned
TieAtZeroFirstWins ==
  /\ match_result.done
  /\ Len(unfilled_placeholders) >= 2
  /\ \A j \in 1..Len(unfilled_placeholders) :
       calculate_match_score(user_input, unfilled_placeholders[j]) = 0
  /\ match_result.result = <<unfilled_placeholders[1], 0>>

\* every value of the dict is a string without '[' and ']'
BracketFree(filled_values) ==
  \A k \in 1..Len(filled_values) :
    /\ filled_values[k].value # None
    /\ \A i \in 1..Len(filled_values[k].value) :
         filled_values[k].value[i] \notin {"[", "]"}

\* C14: a document rendered by a download from filled values without
\* brackets holds no placeholder: find_placeholders finds nothing in the
\* text of the completed document.
RenderedHoldsNoPlaceholder ==
  \A session_id \in DOMAIN sessions :
    (/\ request = [op |-> "download", session_id |-> session_id]
     /\ response.status = 200
     /\ BracketFree(sessions[session_id].filled_values))
    => find_placeholders(extract_document_text(response.file)) = <<>>

\* C14, the failing case: the document rendered from filled values without
\* brackets still holds a bracket that find_placeholders returns
RenderedHoldsPlaceholder ==
  /\ request.op = "download"
  /\ request.session_id \in DOMAIN sessions
  /\ response.status = 200
  /\ BracketFree(sessions[request.session_id].filled_values)
  /\ find_placeholders(extract_document_text(response.file)) # <<>>

\* the values stored in the dict under the key
ValuesUnder(filled_values, key) ==
  {filled_values[k].value :
     k \in {j \in 1..Len(filled_values) : filled_values[j].key = key}}

\* C20: in every session the filled values agree with the placeholder list:
\* the name of a placeholder is a key of the filled values exactly when the
\* placeholder is filled, and the value stored under it is the placeholder's
\* value; a download that passed the gate finds every placeholder's name
\* among the keys.
FilledValuesAgree ==
  /\ \A session_id \in DOMAIN sessions :
       LET session == sessions[session_id]
       IN  \A i \in 1..Len(session.placeholders) :
             LET p == session.placeholders[i]
             IN  /\ (p.name \in DictKeys(session.filled_values)) <=> p.filled
                 /\ p.filled =>
                      ValuesUnder(session.filled_values, p.name) = {p.value}
  /\ (request.op = "download" /\ response.status = 200) =>
       \A i \in 1..Len(sessions[request.session_id].placeholders) :
         sessions[request.session_id].placeholders[i].name
           \in DictKeys(sessions[request.session_id].filled_values)

\* C20: a session with a filled and an unfilled placeholder whose filled
\* values hold the filled placeholder's name, reported in another case, and a
\* name no placeholder has
FilledValuesWithExtraKey ==
  \E session_id \in DOMAIN sessions :
    LET session == sessions[session_id]
    IN  /\ Len(session.placeholders) = 2
        /\ session.placeholders[1].filled
        /\ ~session.placeholders[2].filled
        /\ DictKeys(session.filled_values) = {<<"A">>, <<"c">>}
        /\ llm.called
        /\ <<"a">> \in {Reported(llm)[k].key : k \in 1..Len(Reported(llm))}

\* C20: a download passed the gate with every placeholder's name a key
DownloadWithEveryName ==
  /\ request.op = "download"
  /\ response.status = 200
  /\ Len(sessions[request.session_id].placeholders) = 2
  /\ \A i \in 1..2 :
       sessions[request.session_id].placeholders[i].name
         \in DictKeys(sessions[request.session_id].filled_values)

\* C19: no name returned by find_placeholders holds a '[' or a ']'.
NamesHoldNoBracket ==
  found.done =>
    \A i \in 1..Len(found.placeholders) :
      \A j \in 1..Len(found.placeholders[i].name) :
        found.placeholders[i].name[j] \notin {"[", "]"}

\* C19, the failing case: the text "[[a]" yields the name "[a"
NameHoldsOpeningBracket ==
  /\ found.done
  /\ text = <<"[", "[", "a", "]">>
  /\ Len(found.placeholders) = 1
  /\ found.placeholders[1].name = <<"[", "a">>

\* one name is contained in the other, whatever the case
NameContainment(field_name, name) ==
  \/ Contains(Lower(field_name), Lower(name))
  \/ Contains(Lower(name), Lower(field_name))

\* the placeholders a reported name falls back to: none if a placeholder has
\* the name in some case
FallbackFor(placeholders, field_name) ==
  IF \E i \in 1..Len(placeholders) :
       Lower(placeholders[i].name) = Lower(field_name)
    THEN {}
    ELSE {i \in 1..Len(placeholders) :
            NameContainment(field_name, placeholders[i].name)}

\* C17: in a chat turn, a reported name that no placeholder has in any case,
\* and that is contained in a placeholder's name or contains it, fills such
\* a placeholder.
ContainedNameFills ==
  [][\A session_id \in DOMAIN sessions :
       Answers("chat", session_id)
       => \A k \in 1..Len(Reported(llm')) :
            LET fallback == FallbackFor(sessions[session_id].placeholders,
                                        Reported(llm')[k].key)
            IN  fallback # {}
                => \E i \in fallback :
                     sessions'[session_id].placeholders[i].filled]_vars

\* C17, the failing case: a turn reported the name "bc" for a session whose
\* second placeholder is "b"; the turn was answered, "bc" is stored as
\* reported and no placeholder is filled
ContainedNameStoredUnmatched ==
  /\ request.op = "chat"
  /\ request.session_id \in DOMAIN sessions
  /\ response.status = 200
  /\ Reported(llm) = <<[key |-> LongerName, value |-> <<"v">>]>>
  /\ Len(sessions[request.session_id].placeholders) = 2
  /\ sessions[request.session_id].placeholders[2].name = <<"b">>
  /\ \A i \in 1..2 : ~sessions[request.session_id].placeholders[i].filled
  /\ DictKeys(sessions[request.session_id].filled_values) = {LongerName}

\* Returns: text, currency, date, person_name, company_name, address,
\* email, phone
PlaceholderTypes ==
  {"text", "currency", "date", "person_name", "company_name", "address",
   "email", "phone"}

\* the keywords of the type that occur in the lowercased name, a space and
\* the context
KeywordsIn(t, placeholder_name, context) ==
  {k \in 1..Len(type_patterns[t].keywords) :
     Contains(type_patterns[t].keywords[k],
              Lower(placeholder_name \o <<" ">> \o context))}

\* C18: every call of infer_placeholder_type returns a type of the closed
\* set; it returns 'text' exactly when no keyword of any type occurs in the
\* lowercased name and context; any other type it returns has as many
\* keywords in them as any type has; and repeated calls on one input return
\* one and the same type.
InferredTypeIsArgmax ==
  \A c \in 1..Len(inferred.results) :
    LET r == inferred.results[c]
        hits == [t \in 1..Len(type_patterns) |->
                   Cardinality(KeywordsIn(t, inferred.placeholder_name,
                                          inferred.context))]
    IN  /\ r \in PlaceholderTypes
        /\ (r = "text") <=> (\A t \in 1..Len(type_patterns) : hits[t] = 0)
        /\ r # "text" =>
             \E t \in 1..Len(type_patterns) :
               /\ type_patterns[t].type = r
               /\ \A u \in 1..Len(type_patterns) : hits[u] <= hits[t]
        /\ r = inferred.results[1]

\* C18 witness: two calls on the name "Date" in a context with one keyword
\* of 'currency' and three of 'date' both returned 'date'
InferredDateTwice ==
  /\ inferred.placeholder_name = InferDate
  /\ inferred.context = ContextDated
  /\ Cardinality(KeywordsIn(1, InferDate, ContextDated)) = 1
  /\ Cardinality(KeywordsIn(2, InferDate, ContextDated)) = 3
  /\ inferred.results = <<"date", "date">>

\* C18: a call on a name and a context without any keyword returned 'text'
InferredTextWithoutKeyword ==
  /\ inferred.placeholder_name = InferPlain
  /\ inferred.context = ContextNothing
  /\ inferred.results = <<"text", "text">>

\* C18: email and phone both have one keyword ("contact") in the name
\* "Contact"; the call returned 'email'
InferredFirstOfTie ==
  /\ inferred.placeholder_name = InferContact
  /\ inferred.context = ContextNone
  /\ inferred.results = <<"email", "email">>

\* the coroutine has read the session and has not returned
InFlight(t) == tasks[t].pc \in {"calling", "applying"}

\* no two coroutines are in flight on one session
OneTurnInFlight ==
  \A t, u \in DOMAIN tasks :
    (t # u /\ InFlight(t) /\ InFlight(u))
    => tasks[t].session_id # tasks[u].session_id

\* the session of a coroutine in flight is the session it read, changed by
\* nothing but the part of its own turn done so far
TurnOwnsSession ==
  \A t \in DOMAIN tasks :
    InFlight(t) =>
      LET task == tasks[t]
          session == sessions[task.session_id]
          turn == chat_for_placeholders(task.message, task.seen.placeholders,
                    task.seen.conversation_history, task.reply)
      IN  IF task.pc = "calling"
            THEN session =
                   [task.seen EXCEPT
                      !.conversation_history =
                        Append(@, [role |-> "user",
                                   content |-> task.message])]
            ELSE /\ task.result = turn.result
                 /\ session =
                      ChatUpdate(task.seen,
                        [result |->
                           [filled_values |->
                              SubSeq(task.result.filled_values,
                                     1, task.k - 1)],
                         conversation_history |->
                           turn.conversation_history])

\* a step changes no session but that of the coroutine in flight that took
\* the step
OtherSessionsUntouched ==
  \A session_id \in DOMAIN sessions :
    sessions'[session_id] # sessions[session_id]
    => \E t \in DOMAIN tasks :
         /\ tasks'[t] # tasks[t]
         /\ InFlight(t)'
         /\ tasks'[t].session_id = session_id
         /\ \A u \in DOMAIN tasks \ {t} : tasks'[u] = tasks[u]

\* C15: at most one chat turn is in flight on a session; while a turn is in
\* flight its session is what the turn read, changed only by the turn's own
\* writes so far (user message, assistant message, the pairs applied), so
\* that no other turn has read or written it in between; and a step of a
\* turn changes the session of that turn only.
OneTurnPerSession ==
  /\ []OneTurnInFlight
  /\ []TurnOwnsSession
  /\ [][OtherSessionsUntouched]_vars

\* C15 witness: two requests for one session have arrived; the coroutine of
\* one has applied the first of two reported pairs, the other has not been
\* started
TurnWaitsForTurn ==
  \E t, u \in DOMAIN tasks :
    /\ t # u
    /\ tasks[t].pc = "applying"
    /\ Len(tasks[t].result.filled_values) = 2
    /\ tasks[t].k = 2
    /\ tasks[u].pc = "ready"
    /\ tasks[u].session_id = tasks[t].session_id
    /\ loop = t

\* C15: the second of two turns on one session has read the session as the
\* first turn left it
SecondTurnSeesFirst ==
  \E t, u \in DOMAIN tasks :
    /\ t # u
    /\ tasks[t].pc = "done"
    /\ tasks[t].session_id \in DOMAIN sessions
    /\ tasks[u].pc = "calling"
    /\ tasks[u].session_id = tasks[t].session_id
    /\ tasks[u].seen.placeholders[1].filled
    /\ ~tasks[u].seen.placeholders[2].filled
    /\ Len(tasks[u].seen.conversation_history) = 2

====
